---- MODULE Spec2Model ----
(***************************************************************************)
(* skmp: constraint evaluation (skmp/constraint.py) and the solver         *)
(* lifecycle (skmp/solver/interface.py).                                   *)
(*                                                                         *)
(* Numbers live on an integer lattice: a configuration is a tuple of       *)
(* integers, a residual matrix F is a sequence of rows, a Jacobian J is a  *)
(* sequence (one entry per configuration) of matrices.  The forward        *)
(* differences of the code are taken with one lattice step.                *)
(***************************************************************************)
EXTENDS Integers, Sequences, FiniteSets, TLC

VARIABLES
    objs,      \* heap of constraint objects, in construction order
    call,      \* the last evaluate / evaluate_single / reflect call and its outcome
    efkin,     \* the end-effector kinematics map the caller holds
    prob,      \* the Problem under test and the last Problem method call
    solver,    \* the solver lifecycle: setup, solve, the process-wide timer
    par,       \* the racing meta-solver: orchestrator, workers, result queue
    nn         \* the nearest-neighbour meta-solver: case base, threshold, last solve

vars == <<objs, call, efkin, prob, solver, par, nn>>

----------------------------------------------------------------------------
(* Bounds of the model *)

\* largest number of configurations in one batch
MaxBatch == 2
\* largest coordinate of a configuration (coordinates are 0..MaxQ)
MaxQ == 1
\* largest number of constraint objects on the heap
MaxObjs == 3
\* largest number of members handed to a composite
MaxMembers == 2
\* largest number of constraint objects when only readiness is examined
MaxReadyObjs == 2
\* largest number of waypoints of a trajectory
MaxTraj == 2
\* largest admissible squared goal residual a Problem is given
MaxMse == 1
\* largest number of solve calls made on one solver
MaxCalls == 2
\* largest number of worker processes of a racing meta-solver
MaxProcess == 2
\* largest case base of a nearest-neighbour meta-solver
MaxCases == 3
\* largest knn of a nearest-neighbour meta-solver
MaxKnn == 3
\* largest number of spheres of a collision map handed to the pairwise constraint
MaxSpheres == 3

\* dimension of the configuration space
Dim == Len(<<0, 0>>)

QVals == 0..MaxQ
Configs == [1..Dim -> QVals]
Batches == UNION {[1..n -> Configs] : n \in 1..MaxBatch}

----------------------------------------------------------------------------
(* numpy helpers *)

Abs(x) == IF x < 0 THEN -x ELSE x

Min2(a, b) == IF a <= b THEN a ELSE b

\* a - b, elementwise on vectors of equal length
VSub(a, b) == [k \in 1..Len(a) |-> a[k] - b[k]]

VNeg(a) == [k \in 1..Len(a) |-> -a[k]]

\* np.eye(d)
Eye(d) == [r \in 1..d |-> [c \in 1..d |-> IF r = c THEN 1 ELSE 0]]

\* -np.eye(d)
NegEye(d) == [r \in 1..d |-> [c \in 1..d |-> IF r = c THEN -1 ELSE 0]]

\* ndarray.flatten() of a 2-d array: the rows one after another
RECURSIVE Flatten(_)
Flatten(M) == IF M = <<>> THEN <<>> ELSE Head(M) \o Flatten(Tail(M))

\* ndarray.reshape(n, -1) of a 1-d array whose length n divides
Reshape(v, n) ==
    LET w == Len(v) \div n
    IN  [i \in 1..n |-> [k \in 1..w |-> v[(i - 1) * w + k]]]

\* np.tile(v, n)
RECURSIVE Tile(_, _)
Tile(v, n) == IF n = 0 THEN <<>> ELSE v \o Tile(v, n - 1)

\* np.argmin: the first index of the smallest entry
ArgMin(v) ==
    CHOOSE i \in 1..Len(v) :
        /\ \A k \in 1..Len(v) : v[i] <= v[k]
        /\ \A k \in 1..(i - 1) : v[k] > v[i]

\* sum of a vector
RECURSIVE VSum(_)
VSum(v) == IF v = <<>> THEN 0 ELSE Head(v) + VSum(Tail(v))

\* v . w
Dot(v, w) == VSum([k \in 1..Len(v) |-> v[k] * w[k]])

\* the unit step along coordinate i
Step(x, i) == [k \in 1..Len(x) |-> IF k = i THEN x[k] + 1 ELSE x[k]]

\* np.nan: no number, and no row of numbers either (the empty tuple, so that
\* it can be compared with the rows of a computed Jacobian)
NaN == << >>

\* AbstractConst.dummy_jacobian: np.array([[np.nan]])
dummy_jacobian == <<<<NaN>>>>

----------------------------------------------------------------------------
(* External collaborators: signed-distance field, kinematics maps, the     *)
(* learned self-collision score.                                           *)

\* the obstacle the signed-distance callable measures from
Obstacle == [k \in 1..Dim |-> IF k = 1 THEN 1 ELSE 0]

\* sdf(points): a pure function from a spatial point to its clearance
sdf(x) == VSum([k \in 1..Len(x) |-> Abs(x[k] - Obstacle[k])])

\* forward-difference gradient of the distance field at x, one lattice step
sdf_grad(x) == [k \in 1..Len(x) |-> sdf(Step(x, k)) - sdf(x)]

\* A kinematics map is the list of its tracked features; feature j sits at
\* gain * q + offset and so has the Jacobian gain * I.
Feature(id, gain, offset, radius) ==
    [id |-> id, gain |-> gain, offset |-> offset, radius |-> radius]

FarOffset == [k \in 1..Dim |-> IF k = 1 THEN 3 ELSE 0]
OnesVec == [k \in 1..Dim |-> 1]
ZeroVec == [k \in 1..Dim |-> 0]

\* the collision kinematics map of the robot: three spheres
ColKin ==
    << Feature(1, 1, ZeroVec, 0),
       Feature(2, -1, OnesVec, 1),
       Feature(3, 1, FarOffset, 0) >>

\* the end-effector kinematics map the caller owns: two tracked features
EfKin ==
    << Feature(11, 1, ZeroVec, 0),
       Feature(12, 2, OnesVec, 0) >>

n_feature(kin) == Len(kin)
tinyfk_feature_ids(kin) == [j \in 1..Len(kin) |-> kin[j].id]
radius_list(kin) == [j \in 1..Len(kin) |-> kin[j].radius]

FeaturePoint(f, q) == [k \in 1..Len(q) |-> f.gain * q[k] + f.offset[k]]
FeatureJac(f, q) ==
    [r \in 1..Len(q) |-> [c \in 1..Len(q) |-> IF r = c THEN f.gain ELSE 0]]

\* kin.map(qs): feature points X[i][j] and their Jacobians Jac[i][j]
KinMap(kin, qs) ==
    [X   |-> [i \in 1..Len(qs) |-> [j \in 1..Len(kin) |-> FeaturePoint(kin[j], qs[i])]],
     Jac |-> [i \in 1..Len(qs) |-> [j \in 1..Len(kin) |-> FeatureJac(kin[j], qs[i])]]]

\* kin.add_new_feature_point(parent_id, position, None): a feature rigidly
\* offset from the parent feature
add_new_feature_point(kin, parent_id, position) ==
    LET p == CHOOSE j \in 1..Len(kin) : kin[j].id = parent_id
        newid == 1 + kin[Len(kin)].id
    IN  Append(kin, Feature(newid, kin[p].gain,
                            [k \in 1..Dim |-> kin[p].offset[k] + position[k]], 0))

\* squared distance of two features at q, and its gradient w.r.t. q
SqDist(f, g, q) ==
    LET a == FeaturePoint(f, q)
        b == FeaturePoint(g, q)
    IN  Dot(VSub(a, b), VSub(a, b))

SqDistGrad(f, g, q) ==
    LET a == FeaturePoint(f, q)
        b == FeaturePoint(g, q)
    IN  [l \in 1..Len(q) |-> 2 * (a[l] - b[l]) * (f.gain - g.gain)]

FeatureOf(kin, id) == kin[CHOOSE j \in 1..Len(kin) : kin[j].id = id]

\* the inference model: infer(q, with_grad) -> (score, gradient)
infer_score(q) == VSum(q)
infer_grad(q) == [k \in 1..Len(q) |-> 1]

----------------------------------------------------------------------------
(* Constraint objects *)

IneqKinds == {"BoxConst", "CollFreeConst", "ReducedCollisionFreeConst",
              "PointCollFreeConst", "PairWiseSelfCollFreeConst",
              "NeuralSelfCollFreeConst", "UserIneqConst", "IneqCompositeConst"}
EqKinds == {"ConfigPointConst", "PoseConstraint", "RelativePoseConstraint",
            "EqCompositeConst"}
CompositeKinds == {"IneqCompositeConst", "EqCompositeConst"}

\* AbstractIneqConst.is_equality / AbstractEqConst.is_equality
is_equality(kind) == kind \in EqKinds

\* An object as AbstractConst.__new__ leaves it: the class attribute
\* reflect_robot_flag = False is what an instance reads until it is set.
\* `reflected` records that reflect_skrobot_model has completed on the object.
NewObj(kind) ==
    [kind |-> kind, reflect_robot_flag |-> FALSE, reflected |-> FALSE,
     const_list |-> <<>>, lb |-> <<>>, ub |-> <<>>, target |-> <<>>,
     kin |-> <<>>, pairs |-> <<>>, pair_sqdists |-> <<>>]

\* the readiness gate of AbstractConst.evaluate
IsReadyOpen(o) == TRUE
IsReady(o) == o.reflect_robot_flag

----------------------------------------------------------------------------
(* _evaluate of each variant: [F |-> residuals, J |-> Jacobians] *)

\* BoxConst._evaluate
BoxConst_evaluate(o, qs, with_jacobian) ==
    LET n_point == Len(qs)
        f_lower == Flatten([i \in 1..n_point |-> VSub(qs[i], o.lb)])
        f_upper == Flatten([i \in 1..n_point |-> VSub(o.ub, qs[i])])
        f == Reshape(f_lower \o f_upper, n_point)
        jac_single == Eye(Dim) \o NegEye(Dim)
    IN  [F |-> f,
         J |-> IF with_jacobian THEN [i \in 1..n_point |-> jac_single]
               ELSE dummy_jacobian]

\* CollFreeConst._evaluate
CollFreeConst_evaluate(o, qs, with_jacobian) ==
    LET n_point == Len(qs)
        nf == n_feature(o.kin)
        m == KinMap(o.kin, qs)
        xs_stacked == Flatten(m.X)
        sds_stacked == [k \in 1..(n_point * nf) |-> sdf(xs_stacked[k])]
        margin_radius == Tile(radius_list(o.kin), n_point)
        fs_stacked == VSub(sds_stacked, margin_radius)
        fss == Reshape(fs_stacked, n_point)
        grads_stacked == [k \in 1..(n_point * nf) |-> sdf_grad(xs_stacked[k])]
        gradss == Reshape(grads_stacked, n_point)
        \* np.einsum("ijk,ijkl->ijl", gradss, jacss)
        Jss == [i \in 1..n_point |-> [j \in 1..nf |-> [l \in 1..Dim |->
                  VSum([k \in 1..Dim |-> gradss[i][j][k] * m.Jac[i][j][k][l]])]]]
    IN  [F |-> fss, J |-> IF with_jacobian THEN Jss ELSE dummy_jacobian]

\* ReducedCollisionFreeConst._evaluate: zip(fss, jss) stops at the shorter
ReducedCollisionFreeConst_evaluate(o, qs, with_jacobian) ==
    LET base == CollFreeConst_evaluate(o, qs, with_jacobian)
        n_zip == Min2(Len(base.F), Len(base.J))
        idx_closest_feature(i) == ArgMin(base.F[i])
        fss_new == [i \in 1..n_zip |-> << base.F[i][idx_closest_feature(i)] >>]
        jss_new == [i \in 1..n_zip |-> << base.J[i][idx_closest_feature(i)] >>]
    IN  [F |-> fss_new, J |-> IF with_jacobian THEN jss_new ELSE dummy_jacobian]

\* jacs_stacked[:, :, i] = (self.sdf(qs1) - fs) / self.eps assigns the n_point
\* distances the signed-distance callable returns to a slice of shape
\* (n_point, 1); numpy broadcasts (n_point,) into (n_point, 1) only for
\* n_point = 1 and raises ValueError otherwise
PointCollFreeConst_broadcasts(qs) == Len(qs) = 1

\* PointCollFreeConst._evaluate: the Jacobian is computed whatever the flag
PointCollFreeConst_evaluate(o, qs, with_jacobian) ==
    [F |-> [i \in 1..Len(qs) |-> << sdf(qs[i]) >>],
     J |-> [i \in 1..Len(qs) |-> << sdf_grad(qs[i]) >>]]

\* ConfigPointConst._evaluate
ConfigPointConst_evaluate(o, qs, with_jacobian) ==
    [F |-> [i \in 1..Len(qs) |-> VSub(qs[i], o.target)],
     J |-> IF with_jacobian THEN [i \in 1..Len(qs) |-> Eye(Dim)]
           ELSE dummy_jacobian]

\* PoseConstraint._evaluate: the map's Jacobian is returned whatever the flag
PoseConstraint_evaluate(o, qs, with_jacobian) ==
    LET m == KinMap(o.kin, qs)
        xs == [i \in 1..Len(qs) |-> Flatten(m.X[i])]
        jacs == [i \in 1..Len(qs) |-> Flatten(m.Jac[i])]
    IN  [F |-> [i \in 1..Len(qs) |-> VSub(xs[i], o.target)], J |-> jacs]

\* RelativePoseConstraint._evaluate: feature 2 against the synthetic feature 3
RelativePoseConstraint_evaluate(o, qs, with_jacobian) ==
    LET m == KinMap(o.kin, qs)
        diffs == [i \in 1..Len(qs) |-> VSub(m.X[i][2], m.X[i][3])]
        jacs_diff == [i \in 1..Len(qs) |->
                        [r \in 1..Dim |-> VSub(m.Jac[i][2][r], m.Jac[i][3][r])]]
    IN  [F |-> diffs, J |-> IF with_jacobian THEN jacs_diff ELSE dummy_jacobian]

\* PairWiseSelfCollFreeConst._evaluate
PairWiseSelfCollFreeConst_evaluate(o, qs, with_jacobian) ==
    LET np == Len(o.pairs)
        f1(p) == FeatureOf(o.kin, o.pairs[p][1])
        f2(p) == FeatureOf(o.kin, o.pairs[p][2])
        valuess == [i \in 1..Len(qs) |-> [p \in 1..np |->
                      SqDist(f1(p), f2(p), qs[i]) - o.pair_sqdists[p]]]
        gradss == [i \in 1..Len(qs) |-> [p \in 1..np |->
                      SqDistGrad(f1(p), f2(p), qs[i])]]
    IN  [F |-> valuess, J |-> IF with_jacobian THEN gradss ELSE dummy_jacobian]

\* NeuralSelfCollFreeConst.threshold, counted in half units of the score
threshold == 1

\* NeuralSelfCollFreeConst._evaluate (with_base = False: nothing is stripped)
NeuralSelfCollFreeConst_evaluate(o, qs, with_jacobian) ==
    LET valss == [i \in 1..Len(qs) |-> << threshold - infer_score(qs[i]) >>]
        jacs == [i \in 1..Len(qs) |-> << VNeg(infer_grad(qs[i])) >>]
    IN  [F |-> valss, J |-> IF with_jacobian THEN jacs ELSE dummy_jacobian]

\* a variant written by a user of the library: residual q itself
UserIneqConst_evaluate(o, qs, with_jacobian) ==
    [F |-> qs,
     J |-> IF with_jacobian THEN [i \in 1..Len(qs) |-> Eye(Dim)]
           ELSE dummy_jacobian]

\* dispatch on the concrete type of a non-composite constraint
Leaf_evaluate(o, qs, with_jacobian) ==
    CASE o.kind = "BoxConst" -> BoxConst_evaluate(o, qs, with_jacobian)
      [] o.kind = "CollFreeConst" -> CollFreeConst_evaluate(o, qs, with_jacobian)
      [] o.kind = "ReducedCollisionFreeConst" ->
             ReducedCollisionFreeConst_evaluate(o, qs, with_jacobian)
      [] o.kind = "PointCollFreeConst" -> PointCollFreeConst_evaluate(o, qs, with_jacobian)
      [] o.kind = "ConfigPointConst" -> ConfigPointConst_evaluate(o, qs, with_jacobian)
      [] o.kind = "PoseConstraint" -> PoseConstraint_evaluate(o, qs, with_jacobian)
      [] o.kind = "RelativePoseConstraint" ->
             RelativePoseConstraint_evaluate(o, qs, with_jacobian)
      [] o.kind = "PairWiseSelfCollFreeConst" ->
             PairWiseSelfCollFreeConst_evaluate(o, qs, with_jacobian)
      [] o.kind = "NeuralSelfCollFreeConst" ->
             NeuralSelfCollFreeConst_evaluate(o, qs, with_jacobian)
      [] o.kind = "UserIneqConst" -> UserIneqConst_evaluate(o, qs, with_jacobian)

----------------------------------------------------------------------------
(* evaluate on a heap object *)

RECURSIVE ConcatAll(_)
ConcatAll(ss) == IF ss = <<>> THEN <<>> ELSE Head(ss) \o ConcatAll(Tail(ss))

SameLen(ss) == \A a \in 1..Len(ss) : Len(ss[a]) = Len(ss[1])

\* np.hstack of 2-d arrays / np.concatenate(..., axis=1) of 3-d arrays:
\* entry i of the result is the members' entries i one after another
JoinAxis1(ss) == [i \in 1..Len(ss[1]) |-> ConcatAll([a \in 1..Len(ss) |-> ss[a][i]])]

Raised(status, type, raiser, ran) ==
    [status |-> status, type |-> type, raiser |-> raiser,
     F |-> <<>>, J |-> <<>>, ran |-> ran]

Returned(F, J, ran) ==
    [status |-> "ok", type |-> "", raiser |-> 0, F |-> F, J |-> J, ran |-> ran]

RECURSIVE evaluate(_, _, _, _)
RECURSIVE EvaluateMembers(_, _, _, _, _)

\* the loop of _CompositeConst._evaluate over const_list, in order; acc holds
\* valuess_list, jacs_list and the objects whose _evaluate has run so far
EvaluateMembers(h, members, qs, with_jacobian, acc) ==
    IF members = <<>> THEN acc
    ELSE LET r == evaluate(h, Head(members), qs, with_jacobian)
         IN  IF r.status # "ok"
             THEN [acc EXCEPT !.status = r.status, !.type = r.type,
                              !.raiser = r.raiser, !.ran = acc.ran \cup r.ran]
             ELSE EvaluateMembers(h, Tail(members), qs, with_jacobian,
                      [acc EXCEPT !.F = Append(acc.F, r.F),
                                  !.J = Append(acc.J, r.J),
                                  !.ran = acc.ran \cup r.ran])

\* _CompositeConst._evaluate
CompositeConst_evaluate(h, id, qs, with_jacobian) ==
    LET got == EvaluateMembers(h, h[id].const_list, qs, with_jacobian,
                               Returned(<<>>, <<>>, {id}))
    IN  IF got.status # "ok" THEN Raised(got.status, got.type, got.raiser, got.ran)
        ELSE IF got.F = <<>> \/ ~SameLen(got.F)
        THEN Raised("ValueError", "hstack", id, got.ran)
        ELSE IF ~with_jacobian
        THEN Returned(JoinAxis1(got.F), dummy_jacobian, got.ran)
        ELSE IF ~SameLen(got.J)
        THEN Raised("ValueError", "concatenate", id, got.ran)
        ELSE Returned(JoinAxis1(got.F), JoinAxis1(got.J), got.ran)

\* AbstractConst.evaluate
evaluate(h, id, qs, with_jacobian) ==
    IF ~IsReady(h[id])
    THEN Raised("RuntimeError", h[id].kind, id, {})
    ELSE IF h[id].kind \in CompositeKinds
    THEN CompositeConst_evaluate(h, id, qs, with_jacobian)
    ELSE IF h[id].kind = "PointCollFreeConst" /\ ~PointCollFreeConst_broadcasts(qs)
    THEN Raised("ValueError", "broadcast", id, {id})
    ELSE LET r == Leaf_evaluate(h[id], qs, with_jacobian)
         IN  Returned(r.F, r.J, {id})

\* AbstractConst.evaluate_single; q is a configuration (ndim 1) or, against the
\* signature, a batch (ndim 2), which the assertion rejects
evaluate_single(h, id, q, ndim, with_jacobian) ==
    IF ndim # 1 THEN Raised("AssertionError", "ndim", id, {})
    ELSE LET r == evaluate(h, id, <<q>>, with_jacobian)
         IN  IF r.status # "ok" THEN r
             ELSE Returned(r.F[1], r.J[1], r.ran)

----------------------------------------------------------------------------
(* reflect_skrobot_model *)

RobotModels == {"None", "robot"}

\* _reflect_skrobot_model of the non-composite variants: what it raises
Leaf_reflect_skrobot_model(o, robot_model) ==
    CASE o.kind \in {"CollFreeConst", "ReducedCollisionFreeConst", "PoseConstraint",
                     "RelativePoseConstraint", "PairWiseSelfCollFreeConst"} ->
             IF robot_model = "None" THEN "AssertionError" ELSE "ok"
      [] o.kind = "NeuralSelfCollFreeConst" ->
             IF robot_model = "None" THEN "AttributeError" ELSE "ok"
      [] OTHER -> "ok"

RECURSIVE reflect_skrobot_model(_, _, _)
RECURSIVE ReflectMembers(_, _, _)

\* _CompositeConst._reflect_skrobot_model: each member in order; an error
\* leaves the members already reflected as they are
ReflectMembers(h, members, robot_model) ==
    IF members = <<>> THEN [h |-> h, status |-> "ok"]
    ELSE LET r == reflect_skrobot_model(h, Head(members), robot_model)
         IN  IF r.status # "ok" THEN r
             ELSE ReflectMembers(r.h, Tail(members), robot_model)

\* AbstractConst.reflect_skrobot_model: the flag is set once the variant's
\* own step has returned
reflect_skrobot_model(h, id, robot_model) ==
    LET r == IF h[id].kind \in CompositeKinds
             THEN ReflectMembers(h, h[id].const_list, robot_model)
             ELSE [h |-> h, status |-> Leaf_reflect_skrobot_model(h[id], robot_model)]
    IN  IF r.status # "ok" THEN r
        ELSE [h |-> [r.h EXCEPT ![id].reflect_robot_flag = TRUE,
                                ![id].reflected = TRUE],
              status |-> "ok"]

----------------------------------------------------------------------------
(* Constructors: the object as __init__ has filled it before it reflects,   *)
(* or the error __init__ raises                                            *)

Built(o) == [status |-> "ok", obj |-> o]
Failed(status) == [status |-> status, obj |-> NewObj("")]

\* BoxConst.__init__
BoxConst_init(lb, ub) == Built([NewObj("BoxConst") EXCEPT !.lb = lb, !.ub = ub])

\* CollFreeConst.__init__ (ReducedCollisionFreeConst inherits it)
CollFreeConst_init(kind, colkin) == Built([NewObj(kind) EXCEPT !.kin = colkin])

\* PointCollFreeConst.__init__
PointCollFreeConst_init == Built(NewObj("PointCollFreeConst"))

\* ConfigPointConst.__init__
ConfigPointConst_init(desired_angles) ==
    Built([NewObj("ConfigPointConst") EXCEPT !.target = desired_angles])

\* PoseConstraint.__init__
PoseConstraint_init(desired_poses, kin) ==
    IF Len(desired_poses) # n_feature(kin) THEN Failed("AssertionError")
    ELSE Built([NewObj("PoseConstraint") EXCEPT
                   !.target = ConcatAll(desired_poses), !.kin = kin])

\* what a constructor leaves in the local name efkin: a map object and
\* whether that object is the one the caller passed in
Shared(kin) == [kin |-> kin, is_callers |-> TRUE]

\* copy.deepcopy of a kinematics map: an equal map in an object of its own
deepcopy(kin) == [kin |-> kin, is_callers |-> FALSE]

\* RelativePoseConstraint.__init__: works on its own copy of the map.
\* caller_kin is the caller's map when __init__ is left.
RelativePoseConstraint_init(desired_relative_position, kin) ==
    LET own == deepcopy(kin)
        grown == add_new_feature_point(own.kin, tinyfk_feature_ids(own.kin)[1],
                                       desired_relative_position)
    IN  IF n_feature(own.kin) # 2
        THEN [status |-> "AssertionError",
              obj |-> NewObj("RelativePoseConstraint"), caller_kin |-> kin]
        ELSE [status |-> "ok",
              obj |-> [NewObj("RelativePoseConstraint") EXCEPT
                          !.target = desired_relative_position, !.kin = grown],
              caller_kin |-> IF own.is_callers THEN grown ELSE kin]

\* itertools.combinations(ids, 2), in order
RECURSIVE Combinations2(_)
Combinations2(ids) ==
    IF Len(ids) < 2 THEN <<>>
    ELSE [k \in 1..(Len(ids) - 1) |-> <<ids[1], ids[k + 1]>>]
         \o Combinations2(Tail(ids))

\* no margin: the radius sum itself
rs_without_margin(rs) == rs

\* rs_with_margin = rs * 3
rs_with_margin(rs) == rs * 3

\* keep the entries of a sequence that pass a test, in order
RECURSIVE SelectPairs(_, _)
SelectPairs(pairs, kin) ==
    IF pairs = <<>> THEN <<>>
    ELSE LET p == Head(pairs)
             r == FeatureOf(kin, p[1]).radius + FeatureOf(kin, p[2]).radius
             sq == SqDist(FeatureOf(kin, p[1]), FeatureOf(kin, p[2]), ZeroVec)
             \* dists - rs * 3 < 0, on non-negative numbers
             collides == sq < rs_with_margin(r) * rs_with_margin(r)
         IN  (IF collides THEN <<>> ELSE <<p>>) \o SelectPairs(Tail(pairs), kin)

\* PairWiseSelfCollFreeConst.__init__
PairWiseSelfCollFreeConst_init(colkin) ==
    LET all_index_pairs == Combinations2(tinyfk_feature_ids(colkin))
        valid_sphere_id_pairs == SelectPairs(all_index_pairs, colkin)
        dist(p) == FeatureOf(colkin, p[1]).radius + FeatureOf(colkin, p[2]).radius
    IN  Built([NewObj("PairWiseSelfCollFreeConst") EXCEPT
                  !.kin = colkin,
                  !.pairs = valid_sphere_id_pairs,
                  !.pair_sqdists = [k \in 1..Len(valid_sphere_id_pairs) |->
                                       dist(valid_sphere_id_pairs[k])
                                       * dist(valid_sphere_id_pairs[k])]])

\* NeuralSelfCollFreeConst.__init__
NeuralSelfCollFreeConst_init == Built(NewObj("NeuralSelfCollFreeConst"))

\* members of either polarity pass
AnyPolarity(member_kind, kind) == TRUE

\* the assertion of _CompositeConst.__init__ on one member
SamePolarity(member_kind, kind) == is_equality(member_kind) = is_equality(kind)

\* _CompositeConst.__init__: ready from construction, without reflecting
CompositeConst_init(h, kind, const_list) ==
    IF \E k \in 1..Len(const_list) : ~SamePolarity(h[const_list[k]].kind, kind)
    THEN [status |-> "AssertionError",
          obj |-> [NewObj(kind) EXCEPT !.const_list = const_list]]
    ELSE Built([NewObj(kind) EXCEPT !.const_list = const_list,
                                    !.reflect_robot_flag = TRUE])

----------------------------------------------------------------------------
(* The constraint library as a state machine: objects are constructed,     *)
(* reflected and evaluated one call at a time                              *)

NoCall ==
    [op |-> "none", target |-> 0, qs |-> <<>>, with_jacobian |-> FALSE,
     ndim |-> 0, ready_before |-> FALSE, reflected_before |-> FALSE,
     status |-> "", type |-> "", raiser |-> 0, F |-> <<>>, J |-> <<>>, ran |-> {},
     const_list |-> <<>>]

\* inputs of the constructors
BoxBounds == { [lb |-> [k \in 1..Dim |-> -1], ub |-> [k \in 1..Dim |-> 1]],
               [lb |-> [k \in 1..Dim |-> IF k = 1 THEN -1 ELSE 0],
                ub |-> [k \in 1..Dim |-> IF k = 1 THEN 2 ELSE 1]] }
MemberLists(h) == UNION {[1..n -> 1..Len(h)] : n \in 0..MaxMembers}

ProblemIdle == [op |-> "none"]
SolverIdle == [pc |-> "none"]
ParIdle == [pc |-> "none"]
NNIdle == [pc |-> "none"]

\* a constructor call: __init__ fills the object and, for the variants that
\* do so, ends with reflect_skrobot_model; an error leaves no object behind.
\* cap bounds the heap.
ConstructK(cap, built, reflects, robot_model, caller_kin) ==
    /\ call.op = "none"
    /\ Len(objs) < cap
    /\ LET h1 == Append(objs, built.obj)
           r == IF built.status # "ok" THEN [h |-> objs, status |-> built.status]
                ELSE IF reflects THEN reflect_skrobot_model(h1, Len(h1), robot_model)
                ELSE [h |-> h1, status |-> "ok"]
       IN  /\ objs' = IF r.status = "ok" THEN r.h ELSE objs
           /\ call' = [NoCall EXCEPT !.op = "construct", !.status = r.status,
                                     !.type = built.obj.kind,
                                     !.const_list = built.obj.const_list,
                                     !.target = IF r.status = "ok" THEN Len(h1) ELSE 0]
    /\ efkin' = caller_kin
    /\ UNCHANGED <<prob, solver, par, nn>>

\* a constructor that is handed none of the caller's objects, or only reads them
Construct(cap, built, reflects, robot_model) ==
    ConstructK(cap, built, reflects, robot_model, efkin)

ConstructBox(cap) ==
    \E b \in BoxBounds : Construct(cap, BoxConst_init(b.lb, b.ub), TRUE, "None")

ConstructCollFree(cap) ==
    \E kind \in {"CollFreeConst", "ReducedCollisionFreeConst"}, rm \in RobotModels :
        Construct(cap, CollFreeConst_init(kind, ColKin), TRUE, rm)

ConstructPointCollFree(cap) == Construct(cap, PointCollFreeConst_init, TRUE, "None")

ConstructConfigPoint(cap) == Construct(cap, ConfigPointConst_init(ZeroVec), TRUE, "None")

ConstructPose(cap) ==
    \E rm \in RobotModels :
        Construct(cap, PoseConstraint_init(<<ZeroVec, OnesVec>>, efkin), TRUE, rm)

ConstructRelativePose(cap) ==
    \E rm \in RobotModels :
        LET built == RelativePoseConstraint_init(OnesVec, efkin)
        IN  ConstructK(cap, built, TRUE, rm, built.caller_kin)

ConstructPairWiseOf(cap, colkins) ==
    \E rm \in RobotModels, colkin \in colkins :
        Construct(cap, PairWiseSelfCollFreeConst_init(colkin), TRUE, rm)

ConstructPairWise(cap) == ConstructPairWiseOf(cap, {ColKin})

ConstructNeural(cap) ==
    \E rm \in RobotModels : Construct(cap, NeuralSelfCollFreeConst_init, TRUE, rm)

\* a user-written variant whose __init__ does not reflect
ConstructUser(cap) == Construct(cap, Built(NewObj("UserIneqConst")), FALSE, "None")

ConstructComposite(cap) ==
    \E kind \in CompositeKinds, const_list \in MemberLists(objs) :
        Construct(cap, CompositeConst_init(objs, kind, const_list), FALSE, "None")

\* const.reflect_skrobot_model(robot_model)
Reflect ==
    /\ call.op = "none"
    /\ \E id \in 1..Len(objs), rm \in RobotModels :
          LET r == reflect_skrobot_model(objs, id, rm)
          IN  /\ objs' = r.h
              /\ call' = [NoCall EXCEPT !.op = "reflect", !.target = id,
                                        !.status = r.status]
    /\ UNCHANGED <<efkin, prob, solver, par, nn>>

Record(op, id, qs, ndim, with_jacobian, r) ==
    [op |-> op, target |-> id, qs |-> qs, with_jacobian |-> with_jacobian,
     ndim |-> ndim, ready_before |-> objs[id].reflect_robot_flag,
     reflected_before |-> objs[id].reflected,
     status |-> r.status, type |-> r.type, raiser |-> r.raiser,
     F |-> r.F, J |-> r.J, ran |-> r.ran, const_list |-> <<>>]

\* const.evaluate(qs, with_jacobian), qs drawn from the batches B
Evaluate(B) ==
    /\ call.op = "none"
    /\ \E id \in 1..Len(objs), qs \in B, wj \in BOOLEAN :
          call' = Record("evaluate", id, qs, 2, wj, evaluate(objs, id, qs, wj))
    /\ UNCHANGED <<objs, efkin, prob, solver, par, nn>>

\* const.evaluate_single(q, with_jacobian)
EvaluateSingle ==
    /\ call.op = "none"
    /\ \E id \in 1..Len(objs), wj \in BOOLEAN :
          \/ \E q \in Configs :
                call' = Record("evaluate_single", id, q, 1, wj,
                               evaluate_single(objs, id, q, 1, wj))
          \/ \E qs \in {b \in Batches : Len(b) = 1} :
                call' = Record("evaluate_single", id, qs, 2, wj,
                               evaluate_single(objs, id, qs, 2, wj))
    /\ UNCHANGED <<objs, efkin, prob, solver, par, nn>>

\* the call returns to the caller
Return ==
    /\ call.op # "none"
    /\ call' = NoCall
    /\ UNCHANGED <<objs, efkin, prob, solver, par, nn>>

ConstInit ==
    /\ objs = <<>>
    /\ call = NoCall
    /\ efkin = EfKin
    /\ prob = ProblemIdle
    /\ solver = SolverIdle
    /\ par = ParIdle
    /\ nn = NNIdle

\* every batch of at most MaxBatch configurations, heaps of at most MaxObjs
ConstNext ==
    \/ ConstructBox(MaxObjs)
    \/ ConstructCollFree(MaxObjs)
    \/ ConstructPointCollFree(MaxObjs)
    \/ ConstructConfigPoint(MaxObjs)
    \/ ConstructPose(MaxObjs)
    \/ ConstructRelativePose(MaxObjs)
    \/ ConstructPairWise(MaxObjs)
    \/ ConstructNeural(MaxObjs)
    \/ ConstructUser(MaxObjs)
    \/ ConstructComposite(MaxObjs)
    \/ Reflect
    \/ Evaluate(Batches)
    \/ EvaluateSingle
    \/ Return

SpecConst == ConstInit /\ [][ConstNext]_vars

\* the readiness gate alone: batches of one configuration, smaller heaps
ProbeBatches == {b \in Batches : Len(b) = 1}

ReadyNext ==
    \/ ConstructBox(MaxReadyObjs)
    \/ ConstructCollFree(MaxReadyObjs)
    \/ ConstructPointCollFree(MaxReadyObjs)
    \/ ConstructConfigPoint(MaxReadyObjs)
    \/ ConstructPose(MaxReadyObjs)
    \/ ConstructRelativePose(MaxReadyObjs)
    \/ ConstructPairWise(MaxReadyObjs)
    \/ ConstructNeural(MaxReadyObjs)
    \/ ConstructUser(MaxReadyObjs)
    \/ ConstructComposite(MaxReadyObjs)
    \/ Reflect
    \/ Evaluate(ProbeBatches)
    \/ EvaluateSingle
    \/ Return

SpecReady == ConstInit /\ [][ReadyNext]_vars

\* the end-effector maps a caller may hold: one, two or three tracked features
CallerMaps ==
    { SubSeq(EfKin, 1, 1), EfKin, Append(EfKin, Feature(13, 1, OnesVec, 0)) }

RelPoseInit ==
    /\ objs = <<>>
    /\ call = NoCall
    /\ efkin \in CallerMaps
    /\ prob = ProblemIdle
    /\ solver = SolverIdle
    /\ par = ParIdle
    /\ nn = NNIdle

\* the constraints built from the caller's end-effector map, then reflected
\* and evaluated
RelPoseNext ==
    \/ ConstructPose(MaxReadyObjs)
    \/ ConstructRelativePose(MaxReadyObjs)
    \/ Reflect
    \/ Evaluate(ProbeBatches)
    \/ EvaluateSingle
    \/ Return

SpecRelPose == RelPoseInit /\ [][RelPoseNext]_vars

\* collision maps of two to MaxSpheres spheres: each sphere sits at the origin
\* or away from it at the all-zero configuration and has radius 0 or 1
SphereShapes == {ZeroVec, FarOffset} \X {0, 1}
ColKins ==
    { [j \in DOMAIN shape |-> Feature(j, 1, shape[j][1], shape[j][2])] :
          shape \in UNION {[1..n -> SphereShapes] : n \in 2..MaxSpheres} }

\* one pairwise self-collision constraint over one of these maps, reflected
\* and evaluated (constraints of this variant share nothing)
PairWiseNext ==
    \/ objs = <<>> /\ ConstructPairWiseOf(MaxReadyObjs, ColKins)
    \/ Reflect
    \/ Evaluate(ProbeBatches)
    \/ EvaluateSingle
    \/ Return

SpecPairWise == ConstInit /\ [][PairWiseNext]_vars

----------------------------------------------------------------------------
(* Claims about constraint evaluation *)

\* a call of evaluate, or of evaluate_single with the one-dimensional
\* configuration its assertion asks for
IsEvaluateCall ==
    \/ call.op = "evaluate"
    \/ call.op = "evaluate_single" /\ call.ndim = 1
TargetObj == objs[call.target]

\* the state error of AbstractConst.evaluate, raised by the target itself and
\* naming its concrete type, before its _evaluate has run
FailsNotReflected ==
    /\ call.status = "RuntimeError"
    /\ call.raiser = call.target
    /\ call.type = TargetObj.kind
    /\ call.target \notin call.ran

\* C1 as stated: evaluate or evaluate_single on any constraint whose
\* reflection step has never run fails with the state error naming its type and
\* does not run _evaluate; once reflect_skrobot_model has run on it, evaluate
\* no longer fails this way.
C1_NeverReflectedFails ==
    IsEvaluateCall =>
        /\ ~call.reflected_before => FailsNotReflected
        /\ call.reflected_before => ~FailsNotReflected

\* C1 amended: the state error is what a non-composite constraint whose
\* reflection step has never run answers to evaluate (and to evaluate_single
\* given a one-dimensional configuration), naming its type and without running
\* _evaluate; a composite is ready from construction and never answers so;
\* once reflect_skrobot_model has run on a constraint, evaluate on it no
\* longer fails this way.
C1_UnreadyLeafFails ==
    IsEvaluateCall =>
        /\ (~call.reflected_before /\ TargetObj.kind \notin CompositeKinds)
           => FailsNotReflected
        /\ TargetObj.kind \in CompositeKinds => ~FailsNotReflected
        /\ call.reflected_before => ~FailsNotReflected

\* C1 witness: evaluate was called on a user-written constraint that has never
\* been reflected, and the state error came back
C1_Witness ==
    /\ call.op = "evaluate"
    /\ TargetObj.kind = "UserIneqConst"
    /\ ~call.reflected_before
    /\ FailsNotReflected

\* each member of the composite under evaluation, evaluated on its own
MemberResult(a) ==
    evaluate(objs, TargetObj.const_list[a], call.qs, call.with_jacobian)

\* C2: evaluating a composite on a batch of n configurations gives, for each
\* configuration i, the members' residual rows i one after another in member
\* order and, when the Jacobian is requested, the members' Jacobians of
\* configuration i one after another in the same order.
C2_CompositeConcatenates ==
    (/\ call.op = "evaluate"
     /\ TargetObj.kind \in CompositeKinds
     /\ TargetObj.const_list # <<>>
     /\ \A a \in 1..Len(TargetObj.const_list) : MemberResult(a).status = "ok")
    => /\ call.status = "ok"
       /\ Len(call.F) = Len(call.qs)
       /\ \A i \in 1..Len(call.qs) :
             /\ call.F[i] = ConcatAll([a \in 1..Len(TargetObj.const_list) |->
                                          MemberResult(a).F[i]])
             /\ call.with_jacobian =>
                   call.J[i] = ConcatAll([a \in 1..Len(TargetObj.const_list) |->
                                             MemberResult(a).J[i]])

\* C3: for a batch of n >= 1 configurations, row i of the box constraint's
\* residual is the lower margins Q[i] - lb followed by the upper margins
\* ub - Q[i], and every configuration's Jacobian is [I; -I].
C3_BoxRowsAreMargins ==
    (call.op = "evaluate" /\ TargetObj.kind = "BoxConst")
    => /\ call.status = "ok"
       /\ Len(call.F) = Len(call.qs)
       /\ \A i \in 1..Len(call.qs) :
             /\ call.F[i] = VSub(call.qs[i], TargetObj.lb)
                            \o VSub(TargetObj.ub, call.qs[i])
             /\ call.with_jacobian => call.J[i] = Eye(Dim) \o NegEye(Dim)

\* C4: for both values of with_jacobian the reduced collision-free constraint
\* returns one row per configuration holding the smallest per-feature residual
\* of the articulated constraint and, when the Jacobian is requested, the
\* articulated Jacobian row of that arg-min feature.
C4_ReducedIsRowMinimum ==
    (call.op = "evaluate" /\ TargetObj.kind = "ReducedCollisionFreeConst")
    => LET full == CollFreeConst_evaluate(TargetObj, call.qs, TRUE)
       IN  /\ call.status = "ok"
           /\ Len(call.F) = Len(call.qs)
           /\ \A i \in 1..Len(call.qs) :
                 /\ Len(call.F[i]) = 1
                 /\ \A j \in 1..Len(full.F[i]) : call.F[i][1] <= full.F[i][j]
                 /\ \E j \in 1..Len(full.F[i]) :
                       /\ call.F[i][1] = full.F[i][j]
                       /\ call.with_jacobian => call.J[i] = << full.J[i][j] >>

\* C5: evaluate with with_jacobian false returns the placeholder
\* dummy_jacobian as J, for every variant.
C5_NoJacobianMeansDummy ==
    (call.op = "evaluate" /\ call.status = "ok" /\ ~call.with_jacobian)
    => call.J = dummy_jacobian

----------------------------------------------------------------------------
(* Problem (skmp/solver/interface.py) *)

\* np.all(valss > 0) over a residual matrix
AllPositive(F) == \A i \in 1..Len(F) : \A k \in 1..Len(F[i]) : F[i][k] > 0

\* the global inequality constraints a Problem is given here
ProblemIneqKinds == {"None", "BoxConst", "PointCollFreeConst"}

\* the constraints of a problem as heap objects: 1 the box, 2 the goal, 3 the
\* global inequality constraint when there is one, each as its constructor
\* leaves it
BoxId == 1
GoalId == 2
IneqId == 3
ProblemHeap(p) ==
    LET box == BoxConst_init(p.box.lb, p.box.ub).obj
        goal == ConfigPointConst_init(p.goal).obj
        ineq == IF p.global_ineq_const = "BoxConst" THEN <<box>>
                ELSE IF p.global_ineq_const = "PointCollFreeConst"
                THEN <<PointCollFreeConst_init.obj>>
                ELSE <<>>
        h0 == <<box, goal>> \o ineq
        h1 == reflect_skrobot_model(h0, BoxId, "None").h
        h2 == reflect_skrobot_model(h1, GoalId, "None").h
    IN  IF ineq = <<>> THEN h2 ELSE reflect_skrobot_model(h2, IneqId, "None").h

\* the methods a global inequality constraint inherits from AbstractIneqConst
\* and AbstractConst
AbstractIneqConst_methods ==
    {"evaluate", "evaluate_single", "dummy_jacobian", "_evaluate",
     "reflect_skrobot_model", "_reflect_skrobot_model", "is_equality"}

\* Problem.motion_step_box: a scalar (held here as a one-element tuple) is
\* broadcast to every dimension
motion_step_box(p) ==
    IF p.motion_step_is_array THEN p.motion_step_box_
    ELSE [k \in 1..Len(p.start) |-> p.motion_step_box_[1]]

ProblemResult(status, ret, msg, consulted) ==
    [status |-> status, ret |-> ret, msg |-> msg, consulted |-> consulted]

\* Problem.check_init_feasibility: (is_init_feasible, msg_concat); msg is the
\* list of diagnostics before it is joined
check_init_feasibility(p) ==
    IF p.skip_init_feasibility_check THEN ProblemResult("ok", TRUE, <<>>, {})
    ELSE LET upper == IF \A k \in 1..Len(p.start) : p.start[k] < p.box.ub[k]
                      THEN <<>> ELSE <<"BoxConst upper">>
             lower == IF \A k \in 1..Len(p.start) : p.start[k] > p.box.lb[k]
                      THEN <<>> ELSE <<"BoxConst lower">>
             msg_list == upper \o lower
         IN  IF p.global_ineq_const = "None"
             THEN ProblemResult("ok", msg_list = <<>>, msg_list, {})
             ELSE IF "is_valid" \notin AbstractIneqConst_methods
             THEN ProblemResult("AttributeError", FALSE, <<>>, {"ineq"})
             ELSE ProblemResult("ok", msg_list = <<>>, msg_list, {"ineq"})

\* vals.dot(vals) > self.eqconst_admissible_mse
GoalMissed(vals, mse) == Dot(vals, vals) > mse

\* Problem.is_satisfied; step_ok[i] is the answer of is_valid_motion_step for
\* the waypoints i and i + 1
is_satisfied(p, traj, step_ok) ==
    LET h == ProblemHeap(p)
        g == evaluate_single(h, GoalId, traj[Len(traj)], 1, FALSE)
    IN  IF g.status # "ok" THEN ProblemResult(g.status, FALSE, <<>>, {"goal"})
        ELSE IF GoalMissed(g.F, p.eqconst_admissible_mse)
        THEN ProblemResult("ok", FALSE, <<>>, {"goal"})
        ELSE IF p.global_ineq_const = "None"
        THEN ProblemResult("ok", TRUE, <<>>, {"goal"})
        ELSE LET r == evaluate(h, IneqId, traj, FALSE)
             IN  IF r.status # "ok"
                 THEN ProblemResult(r.status, FALSE, <<>>, {"goal", "ineq"})
                 ELSE IF ~AllPositive(r.F)
                 THEN ProblemResult("ok", FALSE, <<>>, {"goal", "ineq"})
                 ELSE ProblemResult("ok", \A i \in 1..(Len(traj) - 1) : step_ok[i],
                                    <<>>, {"goal", "ineq"})

\* the problems of the model: starts inside a box, on its upper bound and on
\* its lower bound; waypoints on the corners of the unit cell
Starts == {ZeroVec, OnesVec}
Waypoints == [1..Dim -> {0, 1}]
Steps == {[is_array |-> FALSE, v |-> <<1>>], [is_array |-> TRUE, v |-> OnesVec]}
Problems ==
    { [start |-> st, box |-> b, goal |-> gl, global_ineq_const |-> iq,
       global_eq_const |-> eq, eqconst_admissible_mse |-> mse,
       motion_step_is_array |-> ms.is_array, motion_step_box_ |-> ms.v,
       skip_init_feasibility_check |-> skip] :
      st \in Starts, b \in BoxBounds, gl \in {ZeroVec, OnesVec},
      iq \in ProblemIneqKinds,
      eq \in {"None", "ConfigPointConst"}, mse \in 0..MaxMse, ms \in Steps,
      skip \in BOOLEAN }

Trajectories == UNION {[1..n -> Waypoints] : n \in 1..MaxTraj}

\* Problem(...)
CreateProblem ==
    /\ prob.op = "none"
    /\ \E p \in Problems :
          prob' = [op |-> "created", p |-> p, traj |-> <<>>, step_ok |-> <<>>,
                   step_box |-> <<>>, res |-> ProblemResult("", FALSE, <<>>, {})]
    /\ UNCHANGED <<objs, call, efkin, solver, par, nn>>

\* problem.check_init_feasibility()
CheckInitFeasibility ==
    /\ prob.op = "created"
    /\ prob' = [prob EXCEPT !.op = "check_init_feasibility",
                            !.res = check_init_feasibility(prob.p)]
    /\ UNCHANGED <<objs, call, efkin, solver, par, nn>>

\* problem.is_satisfied(traj)
IsSatisfied ==
    /\ prob.op = "created"
    /\ \E traj \in Trajectories :
          \E step_ok \in [1..(Len(traj) - 1) -> BOOLEAN] :
              prob' = [prob EXCEPT !.op = "is_satisfied", !.traj = traj,
                                   !.step_ok = step_ok,
                                   !.step_box = motion_step_box(prob.p),
                                   !.res = is_satisfied(prob.p, traj, step_ok)]
    /\ UNCHANGED <<objs, call, efkin, solver, par, nn>>

\* the method returns to the caller
ProblemReturn ==
    /\ prob.op \in {"check_init_feasibility", "is_satisfied"}
    /\ prob' = [prob EXCEPT !.op = "created", !.traj = <<>>, !.step_ok = <<>>,
                            !.step_box = <<>>,
                            !.res = ProblemResult("", FALSE, <<>>, {})]
    /\ UNCHANGED <<objs, call, efkin, solver, par, nn>>

ProblemNext ==
    \/ CreateProblem
    \/ CheckInitFeasibility
    \/ IsSatisfied
    \/ ProblemReturn

SpecProblem == ConstInit /\ [][ProblemNext]_vars

----------------------------------------------------------------------------
(* Claims about Problem *)

\* the squared goal residual at the final waypoint of the trajectory in hand
GoalSq ==
    LET v == VSub(prob.traj[Len(prob.traj)], prob.p.goal)
    IN  Dot(v, v)

\* every residual of the global inequality constraint at q is > 0
IneqAccepts(q) ==
    IF prob.p.global_ineq_const = "BoxConst"
    THEN \A k \in 1..Dim : q[k] - prob.p.box.lb[k] > 0 /\ prob.p.box.ub[k] - q[k] > 0
    ELSE sdf(q) > 0

WaypointsAndStepsValid ==
    /\ \A i \in 1..Len(prob.traj) : IneqAccepts(prob.traj[i])
    /\ \A i \in 1..(Len(prob.traj) - 1) : prob.step_ok[i]
    /\ prob.step_box = [k \in 1..Dim |-> 1]

\* C6 as stated: is_satisfied returns true exactly when the squared goal
\* residual at the final waypoint is below the admissible tolerance and, if a
\* global inequality constraint is present, every residual at every waypoint is
\* > 0 and every consecutive pair passes the motion-step check; the global
\* equality constraint is never consulted.
C6_SatisfiedIffBelow ==
    prob.op = "is_satisfied" =>
        /\ prob.res.status = "ok"
        /\ prob.res.ret <=>
              /\ GoalSq < prob.p.eqconst_admissible_mse
              /\ prob.p.global_ineq_const # "None" => WaypointsAndStepsValid
        /\ "eq" \notin prob.res.consulted


\* C7: check_init_feasibility returns a (boolean, diagnostic) pair for every
\* problem, with or without a global inequality constraint; the boolean is
\* true exactly when the start is strictly inside the box and the global
\* inequality constraint, if present, accepts it; with the skip flag it is
\* (true, empty diagnostic).
C7_InitFeasibilityPair ==
    prob.op = "check_init_feasibility" =>
        /\ prob.res.status = "ok"
        /\ prob.p.skip_init_feasibility_check =>
              prob.res.ret /\ prob.res.msg = <<>>
        /\ ~prob.p.skip_init_feasibility_check =>
              (prob.res.ret <=>
                  /\ \A k \in 1..Dim : /\ prob.p.start[k] < prob.p.box.ub[k]
                                       /\ prob.p.start[k] > prob.p.box.lb[k]
                  /\ prob.p.global_ineq_const # "None" => IneqAccepts(prob.p.start))

----------------------------------------------------------------------------
(* AbstractSolver: setup, solve and the process-wide interval timer        *)
(*                                                                         *)
(* solve is followed statement by statement, because the SIGALRM handler   *)
(* runs between any two of them:                                           *)
(*   "idle"      no solve call in progress                                 *)
(*   "armed"     handler installed and timer set, the try not yet entered  *)
(*   "try"       inside the try, before the feasibility check              *)
(*   "checked"   check_init_feasibility has returned                       *)
(*   "solving"   inside self._solve                                        *)
(*   "solved"    ret assigned, still inside the try                        *)
(*   "after_try" past the try statement, before signal.alarm(0)            *)
(*   "disarmed"  past signal.alarm(0), before the return                   *)
(*   "returned"  solve has returned ret;  "raised"  solve has raised exc   *)
(***************************************************************************)

\* the problems handed to setup
SolverProblems ==
    {p \in Problems : /\ p.goal = ZeroVec
                      /\ p.eqconst_admissible_mse = 0
                      /\ ~p.motion_step_is_array
                      /\ p.global_eq_const = "None"
                      /\ p.box.ub = OnesVec}

NoProblem == [start |-> <<>>]

NewSolver(has_timeout) ==
    [pc |-> "idle", has_timeout |-> has_timeout, problem |-> NoProblem,
     raise_init_infeasible |-> TRUE, timer |-> "off", fired |-> FALSE,
     checked |-> "", msg |-> <<>>, n_solve |-> 0, ret |-> "none", exc |-> "",
     stamped |-> FALSE, calls |-> 0, stray |-> FALSE]

\* the constructor of a concrete solver; config.timeout is None or positive
CreateSolver ==
    /\ solver.pc = "none"
    /\ \E has_timeout \in BOOLEAN : solver' = NewSolver(has_timeout)
    /\ UNCHANGED <<objs, call, efkin, prob, par, nn>>

\* AbstractSolver.setup
Setup ==
    /\ solver.pc = "idle"
    /\ solver.problem = NoProblem
    /\ \E p \in SolverProblems : solver' = [solver EXCEPT !.problem = p]
    /\ UNCHANGED <<objs, call, efkin, prob, par, nn>>

\* solve is entered: ts is taken and, with a timeout configured, the handler
\* is installed and the timer armed
SolveEnter ==
    /\ solver.pc = "idle"
    /\ solver.calls < MaxCalls
    /\ \E raise_init_infeasible \in BOOLEAN :
          solver' = [solver EXCEPT
                        !.pc = IF solver.has_timeout THEN "armed" ELSE "try",
                        !.timer = IF solver.has_timeout THEN "armed" ELSE @,
                        !.raise_init_infeasible = raise_init_infeasible,
                        !.fired = FALSE, !.checked = "", !.msg = <<>>,
                        !.n_solve = 0, !.ret = "none", !.exc = "",
                        !.stamped = FALSE, !.calls = @ + 1]
    /\ UNCHANGED <<objs, call, efkin, prob, par, nn>>

\* control passes from signal.setitimer into the try block
EnterTry ==
    /\ solver.pc = "armed"
    /\ solver' = [solver EXCEPT !.pc = "try"]
    /\ UNCHANGED <<objs, call, efkin, prob, par, nn>>

\* assert self.problem is not None; self.problem.check_init_feasibility().
\* Whatever is raised here is no TimeoutError and leaves solve at once.
CheckFeasibility ==
    /\ solver.pc = "try"
    /\ IF solver.problem = NoProblem
       THEN solver' = [solver EXCEPT !.pc = "raised", !.exc = "NoProblem"]
       ELSE LET r == check_init_feasibility(solver.problem)
            IN  IF r.status # "ok"
                THEN solver' = [solver EXCEPT !.pc = "raised", !.exc = r.status]
                ELSE solver' = [solver EXCEPT
                                   !.pc = "checked",
                                   !.checked = IF r.ret THEN "feasible"
                                               ELSE "infeasible",
                                   !.msg = r.msg]
    /\ UNCHANGED <<objs, call, efkin, prob, par, nn>>

\* the test that lets every start through
is_init_feasible_whatever(sv) == TRUE

\* if is_init_feasible:
is_init_feasible(sv) == sv.checked = "feasible"

\* if is_init_feasible: ret = self._solve(guiding_traj)
\* else: raise RuntimeError(msg) or ret = abnormal()
Branch ==
    /\ solver.pc = "checked"
    /\ solver' =
          IF is_init_feasible(solver)
          THEN [solver EXCEPT !.pc = "solving", !.n_solve = @ + 1]
          ELSE IF solver.raise_init_infeasible
          THEN [solver EXCEPT !.pc = "raised", !.exc = "RuntimeError"]
          ELSE [solver EXCEPT !.pc = "solved", !.ret = "abnormal"]
    /\ UNCHANGED <<objs, call, efkin, prob, par, nn>>

\* self._solve returns a result, with or without a trajectory
SolveRoutineReturns ==
    /\ solver.pc = "solving"
    /\ \E result \in {"traj", "no_traj"} :
          solver' = [solver EXCEPT !.pc = "solved", !.ret = result]
    /\ UNCHANGED <<objs, call, efkin, prob, par, nn>>

\* self._solve raises an error of its own
SolveRoutineRaises ==
    /\ solver.pc = "solving"
    /\ solver' = [solver EXCEPT !.pc = "raised", !.exc = "SolverError"]
    /\ UNCHANGED <<objs, call, efkin, prob, par, nn>>

\* control leaves the try statement
LeaveTry ==
    /\ solver.pc = "solved"
    /\ solver' = [solver EXCEPT !.pc = "after_try"]
    /\ UNCHANGED <<objs, call, efkin, prob, par, nn>>

\* if self.config.timeout is not None: signal.alarm(0)
Disarm(sv) == IF sv.has_timeout THEN "off" ELSE sv.timer

ResetAlarm ==
    /\ solver.pc = "after_try"
    /\ solver' = [solver EXCEPT !.pc = "disarmed", !.timer = Disarm(solver)]
    /\ UNCHANGED <<objs, call, efkin, prob, par, nn>>

\* ret.time_elapsed = time.time() - ts; return ret
StampAndReturn ==
    /\ solver.pc = "disarmed"
    /\ solver' = [solver EXCEPT !.pc = "returned", !.stamped = TRUE]
    /\ UNCHANGED <<objs, call, efkin, prob, par, nn>>

\* where the TimeoutError raised by the handler is caught by solve
InsideTry(pc) == pc \in {"try", "checked", "solving", "solved"}

\* the timer expires and the handler raises TimeoutError in the main thread:
\* inside the try it is caught (ret = abnormal()); between arming and the try,
\* and between the try and signal.alarm(0), it leaves solve; after solve has
\* ended it is raised in whatever the caller is doing
TimerFires ==
    /\ solver.pc # "none"
    /\ solver.timer = "armed"
    /\ solver' =
          IF InsideTry(solver.pc)
          THEN [solver EXCEPT !.timer = "off", !.fired = TRUE,
                              !.pc = "after_try", !.ret = "abnormal"]
          ELSE IF solver.pc \in {"armed", "after_try"}
          THEN [solver EXCEPT !.timer = "off", !.fired = TRUE,
                              !.pc = "raised", !.exc = "TimeoutError"]
          ELSE [solver EXCEPT !.timer = "off", !.stray = TRUE]
    /\ UNCHANGED <<objs, call, efkin, prob, par, nn>>

\* the caller goes on after solve has returned or raised
CallerContinues ==
    /\ solver.pc \in {"returned", "raised"}
    /\ solver' = [solver EXCEPT !.pc = "idle"]
    /\ UNCHANGED <<objs, call, efkin, prob, par, nn>>

SolveNext ==
    \/ CreateSolver
    \/ Setup
    \/ SolveEnter
    \/ EnterTry
    \/ CheckFeasibility
    \/ Branch
    \/ SolveRoutineReturns
    \/ SolveRoutineRaises
    \/ LeaveTry
    \/ ResetAlarm
    \/ StampAndReturn
    \/ TimerFires
    \/ CallerContinues

SpecSolve == ConstInit /\ [][SolveNext]_vars

----------------------------------------------------------------------------
(* Claims about solve                                                      *)
(***************************************************************************)

\* a solve call has ended, by returning or by raising
Finished == solver.pc \in {"returned", "raised"}

ReturnedAbnormal ==
    /\ solver.pc = "returned"
    /\ solver.ret = "abnormal"
    /\ solver.stamped

\* C8: when the start-feasibility check has reported infeasible, the call
\* ends by raising an error that carries the diagnostic if
\* raise_init_infeasible is true, and otherwise by returning the abnormal
\* result with the elapsed time stamped; it never returns a result bearing a
\* trajectory.  Read together with the deadline rule: a deadline that fires
\* during the call turns the outcome into the abnormal result.
C8_InfeasibleStartOutcome ==
    (Finished /\ solver.checked = "infeasible") =>
        /\ ~(solver.pc = "returned" /\ solver.ret = "traj")
        /\ IF solver.fired THEN ReturnedAbnormal
           ELSE IF solver.raise_init_infeasible
           THEN /\ solver.pc = "raised"
                /\ solver.exc = "RuntimeError"
                /\ solver.msg # <<>>
           ELSE ReturnedAbnormal

\* C9: with a timeout configured, a deadline that fires at any moment
\* between the arming and the disarming ends the call with the abnormal
\* result; TimeoutError never leaves solve.
C9_TimeoutNeverPropagates ==
    (Finished /\ solver.has_timeout /\ solver.fired) =>
        /\ solver.pc = "returned"
        /\ solver.ret = "abnormal"

\* C10: when a solve call with a timeout configured has ended, by returning
\* or by raising, the timer it armed is off, and no timer armed by a
\* finished call ever fires afterwards.
C10_DeadlineDisarmedAtEnd ==
    /\ (Finished /\ solver.has_timeout) => solver.timer = "off"
    /\ solver.pc # "none" => ~solver.stray

----------------------------------------------------------------------------
(* ParallelSolver: N worker processes racing on one result queue           *)
(*                                                                         *)
(* A worker is "running" inside internal_solver._solve, "published" once   *)
(* its result is on the queue and the process is winding down, "exited"    *)
(* when the process has ended by itself, "crashed" when _solve raised and  *)
(* the process ended without publishing, "terminated" after terminate().   *)
(***************************************************************************)

NewWorker == [st |-> "running", joined |-> FALSE]

Alive(w) == w.st \in {"running", "published"}

\* ParallelSolver(config, internal_solver, n_process) after setup(problem)
CreateParallel ==
    /\ par.pc = "none"
    /\ \E n_process \in 1..MaxProcess, has_timeout \in BOOLEAN :
          par' = [pc |-> "idle", n_process |-> n_process,
                  has_timeout |-> has_timeout, workers |-> <<>>,
                  queue |-> <<>>, arrived |-> <<>>, n_got |-> 0,
                  ret |-> [kind |-> "none"], timed_out |-> FALSE,
                  stamped |-> FALSE]
    /\ UNCHANGED <<objs, call, efkin, prob, solver, nn>>

\* solve() on a feasible start reaches ParallelSolver._solve: the queue is
\* created and n_process processes are started
Spawn ==
    /\ par.pc = "idle"
    /\ par' = [par EXCEPT !.pc = "waiting",
                          !.workers = [w \in 1..par.n_process |-> NewWorker]]
    /\ UNCHANGED <<objs, call, efkin, prob, solver, nn>>

\* the target of worker w: result_queue.put(self._parallel_solve_inner(...)),
\* the internal _solve returning a result with or without a trajectory
WorkerPublishes(w) ==
    /\ par.pc # "none"
    /\ w \in 1..Len(par.workers)
    /\ par.workers[w].st = "running"
    /\ \E has_traj \in BOOLEAN :
          LET result == [kind |-> "result", worker |-> w, traj |-> has_traj]
          IN  par' = [par EXCEPT !.workers[w].st = "published",
                                 !.queue = Append(@, result),
                                 !.arrived = Append(@, result)]
    /\ UNCHANGED <<objs, call, efkin, prob, solver, nn>>

\* the internal _solve of worker w raises: the process ends, nothing is put
WorkerCrashes(w) ==
    /\ par.pc # "none"
    /\ w \in 1..Len(par.workers)
    /\ par.workers[w].st = "running"
    /\ par' = [par EXCEPT !.workers[w].st = "crashed"]
    /\ UNCHANGED <<objs, call, efkin, prob, solver, nn>>

\* the process of worker w ends after its put
WorkerExits(w) ==
    /\ par.pc # "none"
    /\ w \in 1..Len(par.workers)
    /\ par.workers[w].st = "published"
    /\ par' = [par EXCEPT !.workers[w].st = "exited"]
    /\ UNCHANGED <<objs, call, efkin, prob, solver, nn>>

\* if result.traj is not None
CarriesAnything(result) == TRUE
CarriesTrajectory(result) == result.traj

\* one turn of `for _ in range(self.n_process)`: result_queue.get() blocks
\* until a result is there; a result with a trajectory ends the loop, the
\* n_process-th result without one ends it with result.abnormal()
GetResult ==
    /\ par.pc = "waiting"
    /\ par.queue # <<>>
    /\ LET result == Head(par.queue)
       IN  par' =
              IF CarriesTrajectory(result)
              THEN [par EXCEPT !.pc = "terminating", !.queue = Tail(@),
                               !.n_got = @ + 1, !.ret = result]
              ELSE IF par.n_got + 1 = par.n_process
              THEN [par EXCEPT !.pc = "returned", !.queue = Tail(@),
                               !.n_got = @ + 1, !.stamped = TRUE,
                               !.ret = [kind |-> "abnormal"]]
              ELSE [par EXCEPT !.queue = Tail(@), !.n_got = @ + 1]
    /\ UNCHANGED <<objs, call, efkin, prob, solver, nn>>

\* for p in processes: p.terminate()
TerminateAll ==
    /\ par.pc = "terminating"
    /\ par' = [par EXCEPT
                  !.pc = "joining",
                  !.workers = [w \in 1..Len(par.workers) |->
                                  IF Alive(par.workers[w])
                                  THEN [par.workers[w] EXCEPT !.st = "terminated"]
                                  ELSE par.workers[w]]]
    /\ UNCHANGED <<objs, call, efkin, prob, solver, nn>>

\* for p in processes: p.join(); return result (solve stamps the time)
JoinAll ==
    /\ par.pc = "joining"
    /\ \A w \in 1..Len(par.workers) : ~Alive(par.workers[w])
    /\ par' = [par EXCEPT
                  !.pc = "returned", !.stamped = TRUE,
                  !.workers = [w \in 1..Len(par.workers) |->
                                  [par.workers[w] EXCEPT !.joined = TRUE]]]
    /\ UNCHANGED <<objs, call, efkin, prob, solver, nn>>

\* the deadline of the enclosing solve fires while _solve is running: the
\* TimeoutError leaves _solve where it stands and solve returns abnormal()
ParDeadline ==
    /\ par.pc \in {"waiting", "terminating", "joining"}
    /\ par.has_timeout
    /\ par' = [par EXCEPT !.pc = "returned", !.timed_out = TRUE,
                          !.stamped = TRUE, !.ret = [kind |-> "abnormal"]]
    /\ UNCHANGED <<objs, call, efkin, prob, solver, nn>>

ParNext ==
    \/ CreateParallel
    \/ Spawn
    \/ \E w \in 1..MaxProcess : WorkerPublishes(w)
    \/ \E w \in 1..MaxProcess : WorkerCrashes(w)
    \/ \E w \in 1..MaxProcess : WorkerExits(w)
    \/ GetResult
    \/ TerminateAll
    \/ JoinAll
    \/ ParDeadline

SpecParallel == ConstInit /\ [][ParNext]_vars

\* fair scheduling: every process that can take a step eventually takes it
ParFairness ==
    /\ WF_vars(Spawn)
    /\ \A w \in 1..MaxProcess : WF_vars(WorkerPublishes(w) \/ WorkerCrashes(w))
    /\ \A w \in 1..MaxProcess : WF_vars(WorkerExits(w))
    /\ WF_vars(GetResult)
    /\ WF_vars(TerminateAll)
    /\ WF_vars(JoinAll)

FairSpecParallel == SpecParallel /\ ParFairness

----------------------------------------------------------------------------
(* Claims about the racing meta-solver                                     *)
(***************************************************************************)

\* positions on the result queue, in order of arrival, of the results that
\* carry a trajectory
TrajArrivals == {i \in 1..Len(par.arrived) : par.arrived[i].traj}

\* C11: _solve returns the first result, in order of arrival on the result
\* queue, that carries a trajectory; if all n_process results arrive without
\* one it returns the abnormal result.
C11_FirstTrajectoryWins ==
    (par.pc = "returned" /\ ~par.timed_out) =>
        IF TrajArrivals # {}
        THEN par.ret = par.arrived[CHOOSE i \in TrajArrivals :
                                      \A j \in TrajArrivals : i <= j]
        ELSE /\ Len(par.arrived) = par.n_process
             /\ par.ret = [kind |-> "abnormal"]

\* C11 witness: the second result to arrive was the first with a trajectory
\* and is the one returned
C11_Witness ==
    /\ par.pc = "returned"
    /\ ~par.timed_out
    /\ Len(par.arrived) >= 2
    /\ ~par.arrived[1].traj
    /\ par.arrived[2].traj
    /\ par.ret = par.arrived[2]

\* C12: whenever solve of the racing meta-solver has returned, no worker it
\* spawned is still running: each has been terminated, or has exited, and
\* has been joined.
C12_NoWorkerLeftBehind ==
    par.pc = "returned" =>
        \A w \in 1..Len(par.workers) :
            /\ ~Alive(par.workers[w])
            /\ par.workers[w].joined

\* C13: under fair scheduling, a solve without timeout whose workers all
\* finish, by returning or by raising, eventually returns a result with the
\* elapsed time stamped.
C13_SolveEventuallyReturns ==
    (par.pc = "waiting" /\ ~par.has_timeout)
        ~> (par.pc = "returned" /\ par.stamped)

----------------------------------------------------------------------------
(* NearestNeigborSolver: case base, leave-one-out calibration, _solve      *)
(***************************************************************************)

\* feature vectors of the cases and of the queries
DescVals == {<<0>>, <<1>>}

\* a case: (feature vector, trajectory or None)
Cases == [desc : DescVals, has_traj : BOOLEAN]
Datasets == UNION {[1..n -> Cases] : n \in 1..MaxCases}

\* np.argsort leaves entries of equal key in an order of its own; the ranks
\* it may give them here: by ascending index (a stable sort) and by
\* descending index
Perms(n) == {[j \in 1..n |-> j], [j \in 1..n |-> n + 1 - j]}

\* np.sum((vec_descs - desc) ** 2, axis=1); the feature vectors have one
\* component, so each sum has one term
sqdists(dataset, desc) ==
    [j \in 1..Len(dataset) |->
        (dataset[j].desc[1] - desc[1]) * (dataset[j].desc[1] - desc[1])]

\* np.argsort(d): the indices by ascending d, entries of equal d by
\* ascending tie
argsort(d, tie) ==
    LET before(a, b) == d[a] < d[b] \/ (d[a] = d[b] /\ tie[a] < tie[b])
        rank(j) == 1 + Cardinality({a \in 1..Len(d) : before(a, j)})
    IN  [p \in 1..Len(d) |-> CHOOSE j \in 1..Len(d) : rank(j) = p]

\* s[lo:hi] of Python
Slice(s, lo, hi) ==
    LET top == IF hi < Len(s) THEN hi ELSE Len(s)
    IN  [a \in 1..(IF top > lo THEN top - lo ELSE 0) |-> s[lo + a]]

\* np.argsort(sqdists)[1 : knn + 1] for case i of the calibration
loo_k_nearests(dataset, knn, tie, i) ==
    Slice(argsort(sqdists(dataset, dataset[i].desc), tie), 1, knn + 1)

NoneCount(dataset, idxs) ==
    Cardinality({a \in 1..Len(idxs) : ~dataset[idxs[a]].has_traj})

\* the error tallied for one threshold
loo_error(dataset, knn, tie, t) ==
    Cardinality({i \in 1..Len(dataset) :
        (NoneCount(dataset, loo_k_nearests(dataset, knn, tie, i)) >= t)
            # (~dataset[i].has_traj)})

\* thresholds[np.argmin(errors)] with thresholds = list(range(1, knn))
calibrate(dataset, knn, tie) ==
    ArgMin([t \in 1..(knn - 1) |-> loo_error(dataset, knn, tie, t)])

\* arguments for infeasibility_threshold: None or a number
ThresholdArgs ==
    {[given |-> FALSE, v |-> 0]} \cup {[given |-> TRUE, v |-> t] : t \in 1..(MaxKnn + 1)}

\* NearestNeigborSolver.init(solver_type, config, dataset, knn, threshold)
CreateNN ==
    /\ nn.pc = "none"
    /\ \E dataset \in Datasets, knn \in 1..MaxKnn, arg \in ThresholdArgs :
       \E tie \in Perms(Len(dataset)) :
          nn' = IF ~arg.given /\ knn = 1
                THEN [pc |-> "init_failed", exc |-> "ValueError"]
                ELSE [pc |-> "idle", dataset |-> dataset, knn |-> knn,
                      arg |-> arg,
                      infeasibility_threshold |->
                          IF arg.given THEN arg.v ELSE calibrate(dataset, knn, tie),
                      loo |-> IF arg.given THEN <<>>
                              ELSE [i \in 1..Len(dataset) |->
                                       loo_k_nearests(dataset, knn, tie, i)],
                      query |-> <<>>, k_nearests |-> <<>>, guide |-> 0,
                      n_internal |-> 0, ret |-> "none"]
    /\ UNCHANGED <<objs, call, efkin, prob, solver, par>>

\* _knn_trajectories: np.argsort(sqdists)[: self.knn]
knn_indices(dataset, knn, tie, query_desc) ==
    Slice(argsort(sqdists(dataset, query_desc), tie), 0, knn)

\* count_none >= self.infeasibility_threshold
SeemsInfeasibleNever(count_none, t) == FALSE
SeemsInfeasible(count_none, t) == count_none >= t

\* _solve(query_desc) with a query: up to the return of abnormal() or the
\* call of self.internal_solver._solve(guiding_traj)
NNSolveQuery ==
    /\ nn.pc = "idle"
    /\ \E query_desc \in DescVals, tie \in Perms(Len(nn.dataset)) :
          LET idxs == knn_indices(nn.dataset, nn.knn, tie, query_desc)
              with_traj == {a \in 1..Len(idxs) : nn.dataset[idxs[a]].has_traj}
              first == CHOOSE a \in with_traj : \A b \in with_traj : a <= b
          IN  nn' = IF SeemsInfeasible(NoneCount(nn.dataset, idxs),
                                       nn.infeasibility_threshold)
                       \/ with_traj = {}
                    THEN [nn EXCEPT !.pc = "returned", !.query = query_desc,
                                    !.k_nearests = idxs, !.guide = 0,
                                    !.n_internal = 0, !.ret = "abnormal"]
                    ELSE [nn EXCEPT !.pc = "internal", !.query = query_desc,
                                    !.k_nearests = idxs, !.guide = idxs[first],
                                    !.n_internal = 1, !.ret = "none"]
    /\ UNCHANGED <<objs, call, efkin, prob, solver, par>>

\* _solve(None): self.internal_solver._solve(None)
NNSolveScratch ==
    /\ nn.pc = "idle"
    /\ nn' = [nn EXCEPT !.pc = "internal", !.query = <<>>, !.k_nearests = <<>>,
                        !.guide = 0, !.n_internal = 1, !.ret = "none"]
    /\ UNCHANGED <<objs, call, efkin, prob, solver, par>>

\* the internal solver returns its result, which _solve returns as it is
InternalSolveReturns ==
    /\ nn.pc = "internal"
    /\ \E result \in {"traj", "no_traj"} :
          nn' = [nn EXCEPT !.pc = "returned", !.ret = result]
    /\ UNCHANGED <<objs, call, efkin, prob, solver, par>>

NNNext ==
    \/ CreateNN
    \/ NNSolveQuery
    \/ NNSolveScratch
    \/ InternalSolveReturns

SpecNN == ConstInit /\ [][NNNext]_vars

----------------------------------------------------------------------------
(* Claims about the nearest-neighbour meta-solver                          *)
(***************************************************************************)

NNBuilt == nn.pc \in {"idle", "internal", "returned"}

Range(s) == {s[a] : a \in 1..Len(s)}

\* S is a set of the k cases nearest to desc among the cases outside excl
\* (all of them when there are fewer than k)
IsNearestSet(S, desc, k, excl) ==
    LET d == sqdists(nn.dataset, desc)
        others == (1..Len(nn.dataset)) \ excl
    IN  /\ S \subseteq others
        /\ Cardinality(S) = IF Cardinality(others) < k THEN Cardinality(others) ELSE k
        /\ \A a \in S : \A b \in others \ S : d[a] <= d[b]

\* the k nearest other cases of case i, equal distances by ascending tie
NearestOthers(i, tie) ==
    LET s == argsort(sqdists(nn.dataset, nn.dataset[i].desc), tie)
    IN  Slice(SelectSeq(s, LAMBDA j : j # i), 0, nn.knn)

\* the leave-one-out mismatch count of threshold t
Mismatches(t, tie) ==
    Cardinality({i \in 1..Len(nn.dataset) :
        (NoneCount(nn.dataset, NearestOthers(i, tie)) >= t)
            # (~nn.dataset[i].has_traj)})

\* C14: with knn >= 2 and no explicit threshold the stored threshold is the
\* smallest t in [1, knn) with the least leave-one-out mismatch count, a case
\* being predicted infeasible iff at least t of its knn nearest other cases
\* have no trajectory (for some order of equally distant cases); an explicit
\* threshold is stored unchanged and nothing is calibrated.
C14_CalibratedThreshold ==
    NNBuilt =>
        /\ (~nn.arg.given /\ nn.knn >= 2) =>
              \E tie \in Perms(Len(nn.dataset)) :
                 LET t == nn.infeasibility_threshold
                 IN  /\ t \in 1..(nn.knn - 1)
                     /\ \A u \in 1..(nn.knn - 1) :
                           /\ Mismatches(t, tie) <= Mismatches(u, tie)
                           /\ u < t => Mismatches(t, tie) < Mismatches(u, tie)
        /\ nn.arg.given =>
              /\ nn.infeasibility_threshold = nn.arg.v
              /\ nn.loo = <<>>

\* C20: in the calibration the neighbours used to predict case i never
\* contain case i and are the knn nearest other cases, also when several
\* cases have the same feature vector.
C20_NeighboursExcludeSelf ==
    (NNBuilt /\ ~nn.arg.given) =>
        \A i \in 1..Len(nn.dataset) :
            /\ i \notin Range(nn.loo[i])
            /\ IsNearestSet(Range(nn.loo[i]), nn.dataset[i].desc, nn.knn, {i})

\* the entries retrieved for the query that carry a trajectory
Guides == {j \in Range(nn.k_nearests) : nn.dataset[j].has_traj}

\* the internal solver ran once, guided by the nearest retrieved entry that
\* has a trajectory, and what it returned was returned
GuidedOnce ==
    /\ nn.n_internal = 1
    /\ nn.guide \in Guides
    /\ \A j \in Guides :
          sqdists(nn.dataset, nn.query)[nn.guide] <= sqdists(nn.dataset, nn.query)[j]
    /\ nn.ret \in {"traj", "no_traj"}

PredictedInfeasible ==
    /\ nn.n_internal = 0
    /\ nn.ret = "abnormal"

\* C15 as stated: with a query, if the entries without trajectory among the
\* knn nearest are at least the threshold, abnormal is returned and the
\* internal solver is not invoked; otherwise it is invoked exactly once,
\* guided by the nearest retrieved entry with a trajectory, and its result is
\* returned even if it failed; without a query it is invoked exactly once
\* without guide.
C15_PredictThenAttemptOnce ==
    nn.pc = "returned" =>
        IF nn.query = <<>>
        THEN nn.n_internal = 1 /\ nn.guide = 0 /\ nn.ret \in {"traj", "no_traj"}
        ELSE /\ IsNearestSet(Range(nn.k_nearests), nn.query, nn.knn, {})
             /\ IF NoneCount(nn.dataset, nn.k_nearests) >= nn.infeasibility_threshold
                THEN PredictedInfeasible
                ELSE GuidedOnce

\* C15 amended: the same, and when none of the retrieved entries has a
\* trajectory although their number is below the threshold, abnormal is
\* returned and the internal solver is not invoked.
C15_AttemptOnceIfGuided ==
    nn.pc = "returned" =>
        IF nn.query = <<>>
        THEN nn.n_internal = 1 /\ nn.guide = 0 /\ nn.ret \in {"traj", "no_traj"}
        ELSE /\ IsNearestSet(Range(nn.k_nearests), nn.query, nn.knn, {})
             /\ IF NoneCount(nn.dataset, nn.k_nearests) >= nn.infeasibility_threshold
                   \/ Guides = {}
                THEN PredictedInfeasible
                ELSE GuidedOnce

\* C15 witness: the nearest retrieved entry has no trajectory, the count
\* stays below the threshold, the internal solver was guided by a farther
\* entry and failed, and its failure was returned
C15_Witness ==
    /\ nn.pc = "returned"
    /\ nn.query # <<>>
    /\ Len(nn.k_nearests) >= 2
    /\ ~nn.dataset[nn.k_nearests[1]].has_traj
    /\ nn.guide # 0
    /\ nn.n_internal = 1
    /\ nn.ret = "no_traj"


----------------------------------------------------------------------------
(* Claims about the relative-pose constraint *)

ConstructsRelativePose(c) ==
    c.op = "construct" /\ c.type = "RelativePoseConstraint"

\* C16: constructing a relative-pose constraint from a map with exactly two
\* tracked features leaves the caller's map as it was (two features, two
\* feature ids) while the constraint's own map has three; no later reflection
\* or evaluation changes the caller's map either; construction from a map
\* whose feature count is not two fails and leaves no object behind.
C16_CallerMapUntouched ==
    [][ /\ efkin' = efkin
        /\ ConstructsRelativePose(call') =>
              /\ n_feature(efkin) # 2 =>
                    call'.status = "AssertionError" /\ objs' = objs
              /\ call'.status = "ok" =>
                    /\ n_feature(efkin') = 2
                    /\ Len(tinyfk_feature_ids(efkin')) = 2
                    /\ n_feature(objs'[call'.target].kin) = 3 ]_vars

\* C16 witness: a relative-pose constraint built from the caller's
\* two-feature map has been evaluated with success, it tracks three features
\* and the caller's map still has two
C16_Witness ==
    /\ call.op = "evaluate"
    /\ call.status = "ok"
    /\ TargetObj.kind = "RelativePoseConstraint"
    /\ n_feature(TargetObj.kin) = 3
    /\ n_feature(efkin) = 2

----------------------------------------------------------------------------
(* Claims about composites *)

\* the member list holds a constraint of the other polarity than the composite
Mixed(h, kind, const_list) ==
    \E k \in 1..Len(const_list) :
        (h[const_list[k]].kind \in EqKinds) # (kind = "EqCompositeConst")

\* C19: constructing an inequality composite from a list containing any
\* equality constraint, or an equality composite from a list containing any
\* inequality constraint, fails at construction and leaves no object; every
\* composite that exists has members that all share its polarity.
C19_CompositePolarity ==
    /\ (call.op = "construct" /\ call.type \in CompositeKinds
            /\ Mixed(objs, call.type, call.const_list)) =>
          call.status = "AssertionError" /\ call.target = 0
    /\ \A id \in 1..Len(objs) :
          objs[id].kind \in CompositeKinds =>
              ~Mixed(objs, objs[id].kind, objs[id].const_list)

\* C19 witness: an inequality composite was asked for with an equality
\* constraint in its list, and construction failed
C19_Witness ==
    /\ call.op = "construct"
    /\ call.type = "IneqCompositeConst"
    /\ Len(call.const_list) > 0
    /\ \E k \in 1..Len(call.const_list) : objs[call.const_list[k]].kind \in EqKinds
    /\ call.status = "AssertionError"

----------------------------------------------------------------------------
(* Claims about the pairwise self-collision constraint *)

RadiusSum(kin, p) == FeatureOf(kin, p[1]).radius + FeatureOf(kin, p[2]).radius

\* the sphere pairs of a map whose distance at the all-zero configuration is
\* not below 3 times their radius sum (compared squared; nothing is negative)
FarEnoughPairs(kin) ==
    { <<kin[a].id, kin[b].id>> : <<a, b>> \in
          { ab \in (1..Len(kin)) \X (1..Len(kin)) :
                /\ ab[1] < ab[2]
                /\ SqDist(kin[ab[1]], kin[ab[2]], ZeroVec)
                       >= 9 * (kin[ab[1]].radius + kin[ab[2]].radius)
                            * (kin[ab[1]].radius + kin[ab[2]].radius) } }

\* a successful evaluation of a pairwise constraint at the all-zero configuration
EvaluatedAtZero ==
    /\ call.status = "ok"
    /\ TargetObj.kind = "PairWiseSelfCollFreeConst"
    /\ \/ call.op = "evaluate_single" /\ call.ndim = 1 /\ call.qs = ZeroVec
       \/ call.op = "evaluate" /\ call.qs = <<ZeroVec>>

ResidualsAtZero == IF call.op = "evaluate" THEN call.F[1] ELSE call.F

\* C17 as stated: the checked pairs of a pairwise self-collision constraint
\* are exactly the sphere pairs whose distance at the all-zero configuration is
\* not below 3 times their radius sum, each kept pair is matched with its own
\* squared radius sum, and evaluating at the all-zero configuration yields a
\* strictly positive residual for every checked pair.
CheckedPairsAsSelected ==
    \A id \in 1..Len(objs) :
        objs[id].kind = "PairWiseSelfCollFreeConst" =>
            LET o == objs[id]
            IN  /\ Range(o.pairs) = FarEnoughPairs(o.kin)
                /\ Len(o.pairs) = Cardinality(FarEnoughPairs(o.kin))
                /\ \A k \in 1..Len(o.pairs) :
                      o.pair_sqdists[k] =
                          RadiusSum(o.kin, o.pairs[k]) * RadiusSum(o.kin, o.pairs[k])

CoincidentPoints(kin, p) ==
    /\ RadiusSum(kin, p) = 0
    /\ SqDist(FeatureOf(kin, p[1]), FeatureOf(kin, p[2]), ZeroVec) = 0

----------------------------------------------------------------------------
(* Claims about Jacobians *)

\* q moved by d lattice steps along coordinate k
Shift(q, k, d) == [l \in 1..Len(q) |-> IF l = k THEN q[l] + d ELSE q[l]]

\* the residuals jac_numerical reads: evaluate_single(q, with_jacobian=False)
ResidualAt(id, q) == evaluate_single(objs, id, q, 1, FALSE)

\* row j of the residual is, along coordinate k, a polynomial of degree at
\* most two on the five lattice points around q (both third differences
\* vanish): no kink of the distance field and no change of the closest
\* feature lies within the stencil
LocallySmooth(id, q, j, k) ==
    LET f(d) == ResidualAt(id, Shift(q, k, d)).F[j]
    IN  /\ f(2) - 3 * f(1) + 3 * f(0) - f(-1) = 0
        /\ f(1) - 3 * f(0) + 3 * f(-1) - f(-2) = 0

\* the Jacobian Jq agrees with the difference quotient of the residuals
\* around q, taken centrally so that it is exact up to degree two
MatchesFiniteDifference(id, q, Jq) ==
    /\ Len(Jq) = Len(ResidualAt(id, q).F)
    /\ \A j \in 1..Len(Jq) :
          /\ Len(Jq[j]) = Len(q)
          /\ \A k \in 1..Len(q) :
                LocallySmooth(id, q, j, k) =>
                    2 * Jq[j][k] = ResidualAt(id, Shift(q, k, 1)).F[j]
                                   - ResidualAt(id, Shift(q, k, -1)).F[j]

\* the configurations of the call in hand, and the Jacobian returned for each
CallConfigs == IF call.op = "evaluate" THEN call.qs ELSE <<call.qs>>
CallJacobians == IF call.op = "evaluate" THEN call.J ELSE <<call.J>>

\* evaluate or evaluate_single was asked for the Jacobian of a constraint that
\* answers evaluate_single without Jacobian at each of the configurations
JacobianRequested ==
    /\ IsEvaluateCall
    /\ call.with_jacobian
    /\ \A i \in 1..Len(CallConfigs) :
          ResidualAt(call.target, CallConfigs[i]).status = "ok"

\* C18: for every constraint variant and every configuration, single or in a
\* batch, the Jacobian returned by evaluate with with_jacobian true matches
\* the finite-difference Jacobian computed from the residuals the same
\* constraint returns through evaluate_single with with_jacobian false.
C18_JacobianMatchesFiniteDifference ==
    JacobianRequested =>
        /\ call.status = "ok"
        /\ Len(CallJacobians) = Len(CallConfigs)
        /\ \A i \in 1..Len(CallConfigs) :
              MatchesFiniteDifference(call.target, CallConfigs[i], CallJacobians[i])

----------------------------------------------------------------------------
(* Claims about the order of setup and solve *)

\* C21: within one call of solve on a plain solver the solver-specific solve
\* routine is invoked at most once, and only if setup has stored a problem
\* beforehand and the start-feasibility check has passed; a solve call made
\* before any setup fails without invoking the routine.  The call fails by
\* raising, or, when a configured deadline fires inside the try before the
\* missing problem is noticed, by returning the abnormal result.
C21_SolveRoutineAtMostOnce ==
    solver.pc # "none" =>
        /\ solver.n_solve <= 1
        /\ solver.pc = "solving" => solver.n_solve = 1
        /\ solver.n_solve = 1 =>
              /\ solver.problem # NoProblem
              /\ solver.checked = "feasible"
        /\ (Finished /\ solver.problem = NoProblem) =>
              /\ solver.n_solve = 0
              /\ \/ solver.pc = "raised"
                 \/ solver.fired /\ ReturnedAbnormal

\* C21 witness: the second solve call on a solver that was set up has
\* returned a trajectory after invoking the routine once in this call
C21_Witness ==
    /\ solver.pc = "returned"
    /\ solver.calls = 2
    /\ solver.problem # NoProblem
    /\ solver.n_solve = 1
    /\ solver.ret = "traj"

----------------------------------------------------------------------------
(* Claims about the construction of the nearest-neighbour meta-solver *)

\* C22: constructing the nearest-neighbour solver without an explicit
\* threshold completes and stores a calibrated threshold for every k >= 1 and
\* every non-empty case base, including the default k = 1.
C22_CalibrationAlwaysCompletes ==
    nn.pc # "none" =>
        /\ NNBuilt
        /\ ~nn.arg.given => nn.infeasibility_threshold \in 1..MaxKnn

====
